---- MODULE Spec2Model ----
(***************************************************************************)
(* A model of the crypto front-end API: the paper-trade handlers           *)
(* (src/api/paper_trades.py), the favorites handlers                       *)
(* (src/api/favorites.py) and the watchlist handlers                       *)
(* (src/api/watchlist.py), each over its SQLite table.                     *)
(*                                                                         *)
(* Conventions.                                                            *)
(*  - A nullable value (SQL NULL, Python None) is a set with at most one    *)
(*    element: None is {} and a present value v is {v}.                    *)
(*  - A symbol is a sequence of characters, so that str.upper() is a real  *)
(*    conversion (Upper) and not the identity.                             *)
(*  - REAL columns hold integers here; AVG is kept as the exact fraction   *)
(*    <<sum, count>>.                                                      *)
(*  - Columns that the handlers store and return verbatim are left out    *)
(*    of the rows: of a paper trade alert_id, notes, risk_percentage,      *)
(*    position_value, potential_loss, potential_profit, risk_reward_ratio  *)
(*    and the timestamps; of a favorite color, is_active, the prices and   *)
(*    the timestamps other than favorite_added_at; of a watchlist row the  *)
(*    prices and the timestamps.                                           *)
(*  - Every handler opens a connection of its own.  A handler is one       *)
(*    action where requests are served one at a time, as the single event  *)
(*    loop of one server process serves them (the handlers are coroutines  *)
(*    that never await).  Where the requests of several server processes   *)
(*    over the same database file interleave, a handler is one action for  *)
(*    each of its storage statements: a SELECT outside a transaction reads *)
(*    the committed tables, and the statements from the first write to the *)
(*    commit take effect together, at the commit.                          *)
(***************************************************************************)
EXTENDS Integers, Sequences, FiniteSets, TLC

VARIABLES
    trades,     \* table paper_trades: a function from row id to row
    tradeSeq,   \* sqlite_sequence of paper_trades (AUTOINCREMENT): last id given
    favorites,  \* table favorites: a set of rows, symbol UNIQUE
    clock,      \* datetime.utcnow(), as a counter
    req,        \* the last request received (a nullable record)
    resp,       \* the last response sent: [op, code, detail, body]
    watchlist,  \* table watchlist: a set of rows, id and symbol UNIQUE
    watchSeq,   \* sqlite_sequence of watchlist (AUTOINCREMENT): last id given
    watchLog,   \* the levels of the records the watchlist module's logger
                \* has written since the last watchlist request began
    inflight    \* for each server process, the handler it is in the middle
                \* of: [op, pc, symbol, max_order]

vars == <<trades, tradeSeq, favorites, clock, req, resp,
          watchlist, watchSeq, watchLog, inflight>>
tradeVars == <<trades, tradeSeq>>
favVars == <<favorites, clock>>
watchVars == <<watchlist, watchSeq, watchLog>>

----------------------------------------------------------------------------
(* Bounds of the model.                                                    *)

\* paper trades ever created (the ids are 1..MaxTradeId)
MaxTradeId == 2
\* the largest value of the clock
MaxClock == 1
\* the largest sort_order add_favorite may hand out
MaxOrder == 3
\* watchlist rows ever created (the ids are 1..MaxWatchId)
MaxWatchId == 2

----------------------------------------------------------------------------
(* Nullable values and strings.                                            *)

None == {}
Some(v) == {v}
Get(o) == CHOOSE v \in o : TRUE

UpperChar(c) ==
    CASE c = "a" -> "A"
      [] c = "b" -> "B"
      [] c = "c" -> "C"
      [] c = "t" -> "T"
      [] OTHER -> c

\* str.upper()
Upper(s) == [i \in DOMAIN s |-> UpperChar(s[i])]

\* A response: the handler, the HTTP status, the error (which check raised
\* it, "" on success) and the JSON body, always a record.
Response(op, code, detail, body) ==
    [op |-> op, code |-> code, detail |-> detail, body |-> body]

\* The body of an error response, and of a success that carries only a message.
NoBody == [message |-> TRUE]

NoRequest == [op |-> "none"]

\* The server processes that serve requests over the one database file.
Procs == {"p1", "p2"}

\* A process between two requests.
Idle == [op |-> "idle", pc |-> "idle", symbol |-> <<>>, max_order |-> 0]

----------------------------------------------------------------------------
(* Paper trades: create, update, delete.                                   *)

AllowedStatus == {"planned", "active", "closed"}

\* ValidateTrade with the LONG stop-loss check made strict (> for >=).
ValidateTrade_StrictStop(t) ==
    IF t.direction \notin {"LONG", "SHORT"} THEN "direction"
    ELSE IF t.entry_price <= 0 THEN "entry_price"
    ELSE IF t.quantity <= 0 THEN "quantity"
    ELSE IF t.direction = "LONG"
         THEN IF t.stop_loss > t.entry_price THEN "long_stop_loss"
              ELSE IF t.take_profit <= t.entry_price THEN "long_take_profit"
              ELSE "ok"
         ELSE IF t.stop_loss <= t.entry_price THEN "short_stop_loss"
              ELSE IF t.take_profit >= t.entry_price THEN "short_take_profit"
              ELSE "ok"

\* ValidateTrade with the quantity check letting 0 through (< for <=).
ValidateTrade_ZeroQuantity(t) ==
    IF t.direction \notin {"LONG", "SHORT"} THEN "direction"
    ELSE IF t.entry_price <= 0 THEN "entry_price"
    ELSE IF t.quantity < 0 THEN "quantity"
    ELSE IF t.direction = "LONG"
         THEN IF t.stop_loss >= t.entry_price THEN "long_stop_loss"
              ELSE IF t.take_profit <= t.entry_price THEN "long_take_profit"
              ELSE "ok"
         ELSE IF t.stop_loss <= t.entry_price THEN "short_stop_loss"
              ELSE IF t.take_profit >= t.entry_price THEN "short_take_profit"
              ELSE "ok"

\* The validation of create_paper_trade: "ok", or the check that rejects.
ValidateTrade(t) ==
    IF t.direction \notin {"LONG", "SHORT"} THEN "direction"
    ELSE IF t.entry_price <= 0 THEN "entry_price"
    ELSE IF t.quantity <= 0 THEN "quantity"
    ELSE IF t.direction = "LONG"
         THEN IF t.stop_loss >= t.entry_price THEN "long_stop_loss"
              ELSE IF t.take_profit <= t.entry_price THEN "long_take_profit"
              ELSE "ok"
         ELSE IF t.stop_loss <= t.entry_price THEN "short_stop_loss"
              ELSE IF t.take_profit >= t.entry_price THEN "short_take_profit"
              ELSE "ok"

\* The CHECK constraints of table paper_trades.
TradeConstraints(row) ==
    /\ row.direction \in {"LONG", "SHORT"}
    /\ row.status \in AllowedStatus

\* NewTradeRow storing planned whatever status the request carries.
NewTradeRow_AlwaysPlanned(t, id) ==
    [id |-> id,
     symbol |-> Upper(t.symbol),
     direction |-> t.direction,
     entry_price |-> t.entry_price,
     stop_loss |-> t.stop_loss,
     take_profit |-> t.take_profit,
     quantity |-> t.quantity,
     risk_amount |-> t.risk_amount,
     status |-> "planned",
     exit_price |-> None,
     exit_time |-> None,
     actual_profit_loss |-> None]

\* The row the INSERT of create_paper_trade writes.
NewTradeRow(t, id) ==
    [id |-> id,
     symbol |-> Upper(t.symbol),
     direction |-> t.direction,
     entry_price |-> t.entry_price,
     stop_loss |-> t.stop_loss,
     take_profit |-> t.take_profit,
     quantity |-> t.quantity,
     risk_amount |-> t.risk_amount,
     status |-> t.status,
     exit_price |-> None,
     exit_time |-> None,
     actual_profit_loss |-> None]

InsertTrade(rows, row) ==
    [i \in DOMAIN rows \cup {row.id} |-> IF i = row.id THEN row ELSE rows[i]]

DeleteTrade(rows, id) ==
    [i \in DOMAIN rows \ {id} |-> rows[i]]

\* POST /api/paper-trades
create_paper_trade(t) ==
    LET v == ValidateTrade(t)
        row == NewTradeRow(t, tradeSeq + 1)
    IN  IF v # "ok"
        THEN /\ resp' = Response("create_paper_trade", 400, v, NoBody)
             /\ UNCHANGED tradeVars
        ELSE IF ~TradeConstraints(row)
        THEN \* sqlite3.IntegrityError: rollback, 500
             /\ resp' = Response("create_paper_trade", 500, "integrity", NoBody)
             /\ UNCHANGED tradeVars
        ELSE /\ tradeSeq < MaxTradeId
             /\ trades' = InsertTrade(trades, row)
             /\ tradeSeq' = row.id
             /\ resp' = Response("create_paper_trade", 200, "",
                                 [id |-> row.id, symbol |-> row.symbol,
                                  direction |-> row.direction])

\* The row after the UPDATE of update_paper_trade: only the supplied
\* (non-None) fields change.
UpdatedTradeRow(row, u) ==
    [row EXCEPT
        !.status = IF u.status # None THEN Get(u.status) ELSE @,
        !.exit_price = IF u.exit_price # None THEN u.exit_price ELSE @,
        !.exit_time = IF u.exit_time # None THEN u.exit_time ELSE @,
        !.actual_profit_loss =
            IF u.actual_profit_loss # None THEN u.actual_profit_loss ELSE @]

\* PUT /api/paper-trades/{trade_id}
update_paper_trade(id, u) ==
    IF id \notin DOMAIN trades
    THEN /\ resp' = Response("update_paper_trade", 404, "not_found", NoBody)
         /\ UNCHANGED tradeVars
    ELSE IF u.status # None /\ Get(u.status) \notin AllowedStatus
    THEN /\ resp' = Response("update_paper_trade", 400, "status", NoBody)
         /\ UNCHANGED tradeVars
    ELSE /\ trades' = [trades EXCEPT ![id] = UpdatedTradeRow(@, u)]
         /\ UNCHANGED tradeSeq
         /\ resp' = Response("update_paper_trade", 200, "", NoBody)

\* DELETE /api/paper-trades/{trade_id}
delete_paper_trade(id) ==
    IF id \notin DOMAIN trades
    THEN /\ resp' = Response("delete_paper_trade", 404, "not_found", NoBody)
         /\ UNCHANGED tradeVars
    ELSE /\ trades' = DeleteTrade(trades, id)
         /\ UNCHANGED tradeSeq
         /\ resp' = Response("delete_paper_trade", 200, "", NoBody)

----------------------------------------------------------------------------
(* Paper-trade statistics: the SQL aggregates as SQLite computes them.     *)
(* A column is a function from row id to a nullable value.                 *)

NonNull(col) == {i \in DOMAIN col : col[i] # None}

RECURSIVE SumOver(_, _)
SumOver(col, ids) ==
    IF ids = {} THEN 0
    ELSE LET i == CHOOSE x \in ids : TRUE
         IN  Get(col[i]) + SumOver(col, ids \ {i})

\* COUNT(*)
SqlCountRows(rows) == Cardinality(DOMAIN rows)

\* COUNT(expr): the rows whose value is not NULL
SqlCount(col) == Cardinality(NonNull(col))

\* SUM(expr): NULL when no row has a non-NULL value (so also over no rows)
SqlSum(col) ==
    IF NonNull(col) = {} THEN None ELSE Some(SumOver(col, NonNull(col)))

\* AVG(expr): NULL when no row has a non-NULL value, else the sum of the
\* non-NULL values over their number, kept as the fraction <<sum, count>>
SqlAvg(col) ==
    IF NonNull(col) = {} THEN None
    ELSE Some(<<SumOver(col, NonNull(col)), Cardinality(NonNull(col))>>)

\* actual_profit_loss > 0 and < 0 in a CASE WHEN: NULL compares as not true
IsPositive(o) == o # None /\ Get(o) > 0
IsNegative(o) == o # None /\ Get(o) < 0

\* CASE WHEN status = s THEN 1 END
StatusColumn(rows, s) ==
    [i \in DOMAIN rows |-> IF rows[i].status = s THEN Some(1) ELSE None]

WinningColumn(rows) ==
    [i \in DOMAIN rows |->
        IF rows[i].status = "closed" /\ IsPositive(rows[i].actual_profit_loss)
        THEN Some(1) ELSE Some(0)]

LosingColumn(rows) ==
    [i \in DOMAIN rows |->
        IF rows[i].status = "closed" /\ IsNegative(rows[i].actual_profit_loss)
        THEN Some(1) ELSE Some(0)]

\* CASE WHEN status = 'closed' THEN actual_profit_loss ELSE 0 END
PnlSumColumn(rows) ==
    [i \in DOMAIN rows |->
        IF rows[i].status = "closed" THEN rows[i].actual_profit_loss
        ELSE Some(0)]

\* PnlAvgColumn with the trades that are not closed coerced to 0.
PnlAvgColumn_ZeroForOpen(rows) ==
    [i \in DOMAIN rows |->
        IF rows[i].status = "closed" THEN rows[i].actual_profit_loss
        ELSE Some(0)]

\* CASE WHEN status = 'closed' THEN actual_profit_loss ELSE NULL END
PnlAvgColumn(rows) ==
    [i \in DOMAIN rows |->
        IF rows[i].status = "closed" THEN rows[i].actual_profit_loss
        ELSE None]

RiskColumn(rows) == [i \in DOMAIN rows |-> Some(rows[i].risk_amount)]

\* The first query: one row of aggregates over the whole table.
GeneralStats(rows) ==
    [total_trades |-> SqlCountRows(rows),
     planned_trades |-> SqlCount(StatusColumn(rows, "planned")),
     active_trades |-> SqlCount(StatusColumn(rows, "active")),
     closed_trades |-> SqlCount(StatusColumn(rows, "closed")),
     winning_trades |-> SqlSum(WinningColumn(rows)),
     losing_trades |-> SqlSum(LosingColumn(rows)),
     total_pnl |-> SqlSum(PnlSumColumn(rows)),
     avg_pnl |-> SqlAvg(PnlAvgColumn(rows)),
     total_risk_amount |-> SqlSum(RiskColumn(rows))]

\* Group without its filter: every group holds the whole table.
Group_Unfiltered(rows, field, key) == rows

\* The rows of one GROUP BY group.
Group(rows, field, key) ==
    [i \in {j \in DOMAIN rows : rows[j][field] = key} |-> rows[i]]

\* GROUP BY: one group for each value the field takes in the table
GroupKeys(rows, field) == {rows[i][field] : i \in DOMAIN rows}

\* The second query (ORDER BY trades_count DESC LIMIT 10: the order of the
\* entries is left out, and the table never holds 10 symbols).
SymbolStats(rows) ==
    {[symbol |-> s,
      trades_count |-> SqlCountRows(Group(rows, "symbol", s)),
      symbol_pnl |-> SqlSum(PnlSumColumn(Group(rows, "symbol", s)))]
        : s \in GroupKeys(rows, "symbol")}

\* The third query: GROUP BY direction (the entries come in no stated order).
DirectionStats(rows) ==
    {[direction |-> d,
      trades_count |-> SqlCountRows(Group(rows, "direction", d)),
      direction_pnl |-> SqlSum(PnlSumColumn(Group(rows, "direction", d))),
      avg_pnl |-> SqlAvg(PnlAvgColumn(Group(rows, "direction", d)))]
        : d \in GroupKeys(rows, "direction")}

\* GET /api/paper-trades/stats
get_paper_trading_stats ==
    /\ resp' = Response("get_paper_trading_stats", 200, "",
                        [general |-> GeneralStats(trades),
                         by_symbol |-> SymbolStats(trades),
                         by_direction |-> DirectionStats(trades)])
    /\ UNCHANGED tradeVars

----------------------------------------------------------------------------
(* Favorites: add, remove, reorder, list.                                  *)

SetMax(S) == CHOOSE m \in S : \A x \in S : x <= m

\* SqlMaxSortOrder taking the number of rows for the largest sort_order.
SqlMaxSortOrder_RowCount(rows) ==
    IF rows = {} THEN None ELSE Some(Cardinality(rows))

\* MAX(sort_order): NULL over no rows
SqlMaxSortOrder(rows) ==
    IF rows = {} THEN None ELSE Some(SetMax({r.sort_order : r \in rows}))

\* Python's  x or d  on a nullable number: d when x is None or 0
PyOr(o, d) == IF o = None \/ Get(o) = 0 THEN d ELSE Get(o)

\* SELECT id FROM favorites WHERE symbol = ?  (BINARY collation: exact match)
FavoriteExists(rows, symbol) == \E r \in rows : r.symbol = symbol

\* The row the INSERT of add_favorite writes (the requests modelled carry
\* no notes).
NewFavoriteRow(symbol, max_order) ==
    [symbol |-> Upper(symbol),
     notes |-> None,
     sort_order |-> max_order + 1,
     favorite_added_at |-> clock]

\* POST /api/favorites
add_favorite(symbol) ==
    IF FavoriteExists(favorites, symbol)
    THEN /\ resp' = Response("add_favorite", 400, "duplicate", NoBody)
         /\ UNCHANGED favVars
    ELSE LET max_order == PyOr(SqlMaxSortOrder(favorites), 0)
             row == NewFavoriteRow(symbol, max_order)
         IN  IF FavoriteExists(favorites, row.symbol)
             THEN \* UNIQUE(symbol): sqlite3.IntegrityError, rollback, 500
                  /\ resp' = Response("add_favorite", 500, "integrity", NoBody)
                  /\ UNCHANGED favVars
             ELSE /\ row.sort_order <= MaxOrder
                  /\ favorites' = favorites \cup {row}
                  /\ UNCHANGED clock
                  /\ resp' = Response("add_favorite", 200, "",
                                      [symbol |-> Upper(symbol)])

\* update_favorite without the lookup: the UPDATE of a symbol that is no
\* favorite changes no row and the answer is 200.
update_favorite_Unchecked(symbol, u) ==
    /\ favorites' =
         {IF r.symbol = Upper(symbol) /\ u.notes # None
          THEN [r EXCEPT !.notes = u.notes] ELSE r : r \in favorites}
    /\ UNCHANGED clock
    /\ resp' = Response("update_favorite", 200, "", NoBody)

\* PUT /api/favorites/{symbol}: notes is written when the request carries
\* one (color is handled alike).
update_favorite(symbol, u) ==
    IF ~FavoriteExists(favorites, Upper(symbol))
    THEN /\ resp' = Response("update_favorite", 404, "not_found", NoBody)
         /\ UNCHANGED favVars
    ELSE /\ favorites' =
              {IF r.symbol = Upper(symbol) /\ u.notes # None
               THEN [r EXCEPT !.notes = u.notes] ELSE r : r \in favorites}
         /\ UNCHANGED clock
         /\ resp' = Response("update_favorite", 200, "", NoBody)

\* add_favorite in a process p that serves it beside the requests of other
\* processes.  Its first statement is the SELECT that looks the symbol up...
add_favorite_select(p, symbol) ==
    /\ inflight[p] = Idle
    /\ IF FavoriteExists(favorites, symbol)
       THEN /\ resp' = Response("add_favorite", 400, "duplicate", NoBody)
            /\ UNCHANGED inflight
       ELSE /\ inflight' = [inflight EXCEPT
                               ![p] = [Idle EXCEPT !.op = "add_favorite",
                                                   !.pc = "max",
                                                   !.symbol = symbol]]
            /\ UNCHANGED resp
    /\ UNCHANGED favVars

\* ...its second the SELECT of MAX(sort_order), kept in max_order...
add_favorite_max(p) ==
    /\ inflight[p].op = "add_favorite"
    /\ inflight[p].pc = "max"
    /\ PyOr(SqlMaxSortOrder(favorites), 0) < MaxOrder
    /\ inflight' = [inflight EXCEPT
                        ![p].pc = "insert",
                        ![p].max_order = PyOr(SqlMaxSortOrder(favorites), 0)]
    /\ UNCHANGED <<favVars, resp>>

\* ...and its last the INSERT with its commit, on the table as it is by then.
add_favorite_insert(p) ==
    /\ inflight[p].op = "add_favorite"
    /\ inflight[p].pc = "insert"
    /\ LET row == NewFavoriteRow(inflight[p].symbol, inflight[p].max_order)
       IN  IF FavoriteExists(favorites, row.symbol)
           THEN \* UNIQUE(symbol): sqlite3.IntegrityError, rollback, 500
                /\ resp' = Response("add_favorite", 500, "integrity", NoBody)
                /\ UNCHANGED favVars
           ELSE /\ favorites' = favorites \cup {row}
                /\ UNCHANGED clock
                /\ resp' = Response("add_favorite", 200, "",
                                    [symbol |-> row.symbol])
    /\ inflight' = [inflight EXCEPT ![p] = Idle]

\* DELETE /api/favorites/{symbol}
remove_favorite(symbol) ==
    IF ~FavoriteExists(favorites, Upper(symbol))
    THEN /\ resp' = Response("remove_favorite", 404, "not_found", NoBody)
         /\ UNCHANGED favVars
    ELSE /\ favorites' = {r \in favorites : r.symbol # Upper(symbol)}
         /\ UNCHANGED clock
         /\ resp' = Response("remove_favorite", 200, "", NoBody)

\* SetSortOrder writing the 1-based position.
SetSortOrder_OneBased(rows, symbol, index) ==
    {IF r.symbol = symbol THEN [r EXCEPT !.sort_order = index + 1] ELSE r
        : r \in rows}

\* UPDATE favorites SET sort_order = ? WHERE symbol = ?
SetSortOrder(rows, symbol, index) ==
    {IF r.symbol = symbol THEN [r EXCEPT !.sort_order = index] ELSE r
        : r \in rows}

\* The loop of reorder_favorites from the k-th element of the list on
\* (enumerate() counts from 0, a sequence from 1).
RECURSIVE ReorderFrom(_, _, _)
ReorderFrom(rows, symbol_order, k) ==
    IF k > Len(symbol_order) THEN rows
    ELSE ReorderFrom(SetSortOrder(rows, Upper(symbol_order[k]), k - 1),
                     symbol_order, k + 1)

\* POST /api/favorites/reorder
reorder_favorites(symbol_order) ==
    /\ favorites' = ReorderFrom(favorites, symbol_order, 1)
    /\ UNCHANGED clock
    /\ resp' = Response("reorder_favorites", 200, "", NoBody)

\* InListingOrder with sort_order descending.
InListingOrder_Descending(a, b) ==
    \/ a.sort_order > b.sort_order
    \/ /\ a.sort_order = b.sort_order
       /\ a.favorite_added_at >= b.favorite_added_at

\* ORDER BY sort_order ASC, favorite_added_at DESC: a before b is allowed
InListingOrder(a, b) ==
    \/ a.sort_order < b.sort_order
    \/ /\ a.sort_order = b.sort_order
       /\ a.favorite_added_at >= b.favorite_added_at

\* The sequences that hold every row once.
RowOrders(rows) ==
    {l \in [1..Cardinality(rows) -> rows] : \A r \in rows : \E i \in DOMAIN l : l[i] = r}

\* The orders the SELECT of get_favorites may return the rows in: rows equal
\* in both sort keys come in an order SQL leaves open.
Listings(rows) ==
    {l \in RowOrders(rows) :
        \A i, j \in DOMAIN l : i < j => InListingOrder(l[i], l[j])}

\* One entry of the JSON list of get_favorites.
FavoriteEntry(r) ==
    [symbol |-> r.symbol,
     notes |-> r.notes,
     sort_order |-> PyOr(Some(r.sort_order), 0),
     favorite_added_at |-> r.favorite_added_at]

\* GET /api/favorites
get_favorites ==
    /\ \E l \in Listings(favorites) :
          resp' = Response("get_favorites", 200, "",
                           [items |-> [i \in DOMAIN l |-> FavoriteEntry(l[i])]])
    /\ UNCHANGED favVars

\* Time passes: datetime.utcnow() does not go back.
Tick ==
    /\ clock < MaxClock
    /\ clock' = clock + 1
    /\ UNCHANGED <<favorites, tradeVars, req, resp, watchVars, inflight>>

----------------------------------------------------------------------------
(* Watchlist: add, update, remove, list.                                   *)

\* SELECT id FROM watchlist WHERE symbol = ?
WatchSymbolExists(rows, symbol) == \E r \in rows : r.symbol = symbol

\* SELECT id FROM watchlist WHERE id = ?
WatchIdExists(rows, id) == \E r \in rows : r.id = id

\* The row the INSERT of add_to_watchlist writes: is_active and is_favorite
\* take the defaults of their columns.
NewWatchRow(symbol, id) ==
    [id |-> id, symbol |-> Upper(symbol), is_active |-> TRUE, is_favorite |-> FALSE]

\* POST /api/watchlist
add_to_watchlist(symbol) ==
    IF WatchSymbolExists(watchlist, Upper(symbol))
    THEN /\ resp' = Response("add_to_watchlist", 400, "duplicate", NoBody)
         /\ watchLog' = <<>>
         /\ UNCHANGED <<watchlist, watchSeq>>
    ELSE LET row == NewWatchRow(symbol, watchSeq + 1)
         IN  /\ watchSeq < MaxWatchId
             /\ watchlist' = watchlist \cup {row}
             /\ watchSeq' = row.id
             /\ watchLog' = <<"info">>
             /\ resp' = Response("add_to_watchlist", 200, "",
                                 [id |-> row.id, symbol |-> row.symbol])

\* UPDATE watchlist SET symbol = ?, is_active = ? WHERE id = ?
UpdatedWatchRows(rows, item_id, item) ==
    {IF r.id = item_id
     THEN [r EXCEPT !.symbol = Upper(item.symbol), !.is_active = item.is_active]
     ELSE r : r \in rows}

\* PUT /api/watchlist/{item_id}
update_watchlist_item(item_id, item) ==
    IF ~WatchIdExists(watchlist, item_id)
    THEN /\ resp' = Response("update_watchlist_item", 404, "not_found", NoBody)
         /\ watchLog' = <<>>
         /\ UNCHANGED <<watchlist, watchSeq>>
    ELSE IF \E r \in watchlist : r.id # item_id /\ r.symbol = Upper(item.symbol)
    THEN \* UNIQUE(symbol): sqlite3.IntegrityError, rollback, 500
         /\ resp' = Response("update_watchlist_item", 500, "integrity", NoBody)
         /\ watchLog' = <<"error">>
         /\ UNCHANGED <<watchlist, watchSeq>>
    ELSE /\ watchlist' = UpdatedWatchRows(watchlist, item_id, item)
         /\ UNCHANGED watchSeq
         /\ watchLog' = <<"info">>
         /\ resp' = Response("update_watchlist_item", 200, "", NoBody)

\* DELETE /api/watchlist/{item_id}
remove_from_watchlist(item_id) ==
    IF ~WatchIdExists(watchlist, item_id)
    THEN /\ resp' = Response("remove_from_watchlist", 404, "not_found", NoBody)
         /\ watchLog' = <<>>
         /\ UNCHANGED <<watchlist, watchSeq>>
    ELSE /\ watchlist' = {r \in watchlist : r.id # item_id}
         /\ UNCHANGED watchSeq
         /\ watchLog' = <<"info">>
         /\ resp' = Response("remove_from_watchlist", 200, "", NoBody)

\* ClearFavoriteFlags clearing nothing.
ClearFavoriteFlags_Keep(rows) == rows

\* UPDATE watchlist SET is_favorite = FALSE
ClearFavoriteFlags(rows) == {[r EXCEPT !.is_favorite = FALSE] : r \in rows}

\* UPDATE watchlist SET is_favorite = TRUE
\*     WHERE symbol IN (SELECT symbol FROM favorites)
SetFavoriteFlags(rows, favs) ==
    {IF \E f \in favs : f.symbol = r.symbol
     THEN [r EXCEPT !.is_favorite = TRUE] ELSE r : r \in rows}

\* update_watchlist_favorites: the table it leaves.  Both updates are
\* committed together; when a statement fails the exception is caught, the
\* transaction rolled back and nothing raised.
update_watchlist_favorites(rows, favs, fails) ==
    IF fails THEN rows ELSE SetFavoriteFlags(ClearFavoriteFlags(rows), favs)

\* The code of a character (BINARY collation compares the bytes).
CharCode(c) ==
    CASE c = "A" -> 65
      [] c = "B" -> 66
      [] c = "C" -> 67
      [] c = "T" -> 84
      [] c = "a" -> 97
      [] c = "b" -> 98
      [] c = "c" -> 99
      [] c = "t" -> 116

\* s < t as SQLite compares two TEXT values.
SymbolLess(s, t) ==
    \E k \in 1..(Len(t)) :
        /\ \A i \in 1..(k - 1) : i <= Len(s) /\ s[i] = t[i]
        /\ \/ k = Len(s) + 1
           \/ k <= Len(s) /\ CharCode(s[k]) < CharCode(t[k])

\* ORDER BY is_favorite DESC, symbol ASC: a comes before b
InWatchOrder(a, b) ==
    \/ a.is_favorite /\ ~b.is_favorite
    \/ a.is_favorite = b.is_favorite /\ SymbolLess(a.symbol, b.symbol)

\* The rows as the SELECT of get_watchlist returns them (symbol is UNIQUE, so
\* the order is the only one).
WatchListing(rows) ==
    CHOOSE l \in RowOrders(rows) :
        \A i, j \in DOMAIN l : i < j => InWatchOrder(l[i], l[j])

\* GET /api/watchlist.  syncFails: a statement of update_watchlist_favorites
\* raises; selectFails: the SELECT of the handler raises.
get_watchlist(syncFails, selectFails) ==
    LET synced == update_watchlist_favorites(watchlist, favorites, syncFails)
        syncLog == IF syncFails THEN "error" ELSE "debug"
    IN  /\ watchlist' = synced
        /\ UNCHANGED watchSeq
        /\ IF selectFails
           THEN /\ watchLog' = <<syncLog, "error">>
                /\ resp' = Response("get_watchlist", 500, "storage", NoBody)
           ELSE /\ watchLog' = <<syncLog, "info">>
                /\ resp' = Response("get_watchlist", 200, "",
                                    [items |-> WatchListing(synced)])

\* get_watchlist in a process p that serves it beside the requests of other
\* processes.  Its first storage statements are those of
\* update_watchlist_favorites, committed on a connection of its own...
get_watchlist_sync(p) ==
    /\ inflight[p] = Idle
    /\ watchlist' = update_watchlist_favorites(watchlist, favorites, FALSE)
    /\ watchLog' = <<"debug">>
    /\ inflight' = [inflight EXCEPT
                        ![p] = [Idle EXCEPT !.op = "get_watchlist", !.pc = "select"]]
    /\ UNCHANGED <<watchSeq, resp>>

\* ...and its next the SELECT on the handler's connection, which reads the
\* tables as they are committed by then.
get_watchlist_select(p) ==
    /\ inflight[p].op = "get_watchlist"
    /\ inflight[p].pc = "select"
    /\ resp' = Response("get_watchlist", 200, "",
                        [items |-> WatchListing(watchlist)])
    /\ watchLog' = Append(watchLog, "info")
    /\ inflight' = [inflight EXCEPT ![p] = Idle]
    /\ UNCHANGED <<watchlist, watchSeq>>

----------------------------------------------------------------------------
(* The requests the clients send.                                          *)

TradeSymbols == {<<"b", "t", "c">>}

\* Every combination around the boundaries of the validation.
TradeCreates ==
    [symbol : TradeSymbols,
     direction : {"LONG", "SHORT", "long"},
     entry_price : {0, 1},
     stop_loss : {0, 1, 2},
     take_profit : {0, 1, 2},
     quantity : {0, 1},
     risk_amount : {5},
     status : {"planned", "closed", "open"}]

\* The creations the statistics are checked on: both directions, every
\* status, stops and targets on either side of the entry price.
StatsCreates ==
    [symbol : TradeSymbols,
     direction : {"LONG", "SHORT"},
     entry_price : {1},
     stop_loss : {0, 2},
     take_profit : {0, 2},
     quantity : {1},
     risk_amount : {5},
     status : {"planned", "active", "closed", "open"}]

TradeIds == 1..MaxTradeId

\* The updates the creation rules are checked against: they close a trade,
\* record an exit price or a result, or carry a status that is not allowed.
LifeUpdates ==
    [status : {None, Some("closed"), Some("open")},
     exit_price : {None, Some(2)},
     exit_time : {None},
     actual_profit_loss : {None, Some(1)}]

TradeUpdates ==
    [status : {None, Some("planned"), Some("active"), Some("closed"), Some("open")},
     exit_price : {None},
     exit_time : {None},
     actual_profit_loss : {None, Some(-1), Some(0), Some(1)}]

\* The creations and updates the handling of the status is checked on: a
\* LONG trade, valid or with its stop-loss at the entry price, in every
\* status and in one that is not allowed.
StatusCreates ==
    [symbol : TradeSymbols,
     direction : {"LONG"},
     entry_price : {1},
     stop_loss : {0, 1},
     take_profit : {2},
     quantity : {1},
     risk_amount : {5},
     status : {"planned", "active", "closed", "open"}]

StatusUpdates ==
    [status : {None, Some("planned"), Some("active"), Some("closed"), Some("open")},
     exit_price : {None},
     exit_time : {None},
     actual_profit_loss : {None}]

FavSymbols == {<<"A">>, <<"a">>, <<"B">>, <<"C">>}

\* The symbol_order lists: every list that names no symbol twice (one that
\* holds both <<"A">> and <<"a">> names the same favorite twice).
ReorderLists ==
    {l \in UNION {[1..n -> FavSymbols] : n \in 0..Cardinality(FavSymbols)} :
        \A i, j \in DOMAIN l : i # j => l[i] # l[j]}

\* The requests the error answers are checked on.  Paper trades: a valid
\* request and one with its stop-loss at the entry price; an update that
\* closes with an exit price and one whose status is not allowed.
ErrorCreates == {t \in StatusCreates : t.status = "planned"}

ErrorUpdates ==
    [status : {Some("closed"), Some("open")},
     exit_price : {Some(2)},
     exit_time : {None},
     actual_profit_loss : {None}]

\* Favorites: one symbol in two spellings, with and without notes.
ErrorSymbols == {<<"a">>, <<"A">>}

FavoriteUpdates == [notes : {None, Some("n")}]

\* The symbols of the watchlist requests, and of the favorites requests
\* that go with them.
WatchSymbols == {<<"a">>, <<"B">>}

WatchIds == 1..MaxWatchId

\* The bodies of update_watchlist_item (their id field is not read).
WatchUpdates == [symbol : WatchSymbols, is_active : BOOLEAN]

----------------------------------------------------------------------------
(* The specifications.                                                     *)

Init ==
    /\ trades = <<>>
    /\ tradeSeq = 0
    /\ favorites = {}
    /\ clock = 0
    /\ req = NoRequest
    /\ resp = Response("none", 0, "", NoBody)
    /\ watchlist = {}
    /\ watchSeq = 0
    /\ watchLog = <<>>
    /\ inflight = [p \in Procs |-> Idle]

\* Paper-trade creation, with the request kept beside the response.
NextCreate ==
    \/ \E t \in TradeCreates :
          /\ create_paper_trade(t)
          /\ req' = [op |-> "create_paper_trade", trade |-> t]
          /\ UNCHANGED <<favVars, watchVars, inflight>>
    \/ \E id \in TradeIds :
          /\ delete_paper_trade(id)
          /\ req' = [op |-> "delete_paper_trade", trade_id |-> id]
          /\ UNCHANGED <<favVars, watchVars, inflight>>

SpecCreate == Init /\ [][NextCreate]_vars

\* Every creation request, followed by updates and deletions.
NextLifecycle ==
    \/ \E t \in TradeCreates : create_paper_trade(t) /\ UNCHANGED <<favVars, req, watchVars, inflight>>
    \/ \E id \in TradeIds, u \in LifeUpdates :
          update_paper_trade(id, u) /\ UNCHANGED <<favVars, req, watchVars, inflight>>
    \/ \E id \in TradeIds : delete_paper_trade(id) /\ UNCHANGED <<favVars, req, watchVars, inflight>>

SpecLifecycle == Init /\ [][NextLifecycle]_vars

\* The life of the paper trades and their statistics.
NextTrades ==
    \/ \E t \in StatsCreates : create_paper_trade(t) /\ UNCHANGED <<favVars, req, watchVars, inflight>>
    \/ \E id \in TradeIds, u \in TradeUpdates :
          update_paper_trade(id, u) /\ UNCHANGED <<favVars, req, watchVars, inflight>>
    \/ \E id \in TradeIds : delete_paper_trade(id) /\ UNCHANGED <<favVars, req, watchVars, inflight>>
    \/ get_paper_trading_stats /\ UNCHANGED <<favVars, req, watchVars, inflight>>

SpecTrades == Init /\ [][NextTrades]_vars

\* The status of the paper trades, with the request kept beside the response.
NextStatus ==
    \/ \E t \in StatusCreates :
          /\ create_paper_trade(t)
          /\ req' = [op |-> "create_paper_trade", trade |-> t]
          /\ UNCHANGED <<favVars, watchVars, inflight>>
    \/ \E id \in TradeIds, u \in StatusUpdates :
          /\ update_paper_trade(id, u)
          /\ req' = [op |-> "update_paper_trade", trade_id |-> id, update |-> u]
          /\ UNCHANGED <<favVars, watchVars, inflight>>
    \/ \E id \in TradeIds :
          /\ delete_paper_trade(id)
          /\ req' = [op |-> "delete_paper_trade", trade_id |-> id]
          /\ UNCHANGED <<favVars, watchVars, inflight>>

SpecStatus == Init /\ [][NextStatus]_vars

\* The favorites, with the request kept beside the response.
NextFavorites ==
    \/ \E s \in FavSymbols :
          /\ add_favorite(s)
          /\ req' = [op |-> "add_favorite", symbol |-> s]
          /\ UNCHANGED <<tradeVars, watchVars, inflight>>
    \/ \E s \in FavSymbols :
          /\ remove_favorite(s)
          /\ req' = [op |-> "remove_favorite", symbol |-> s]
          /\ UNCHANGED <<tradeVars, watchVars, inflight>>
    \/ \E l \in ReorderLists :
          /\ reorder_favorites(l)
          /\ req' = [op |-> "reorder_favorites", symbol_order |-> l]
          /\ UNCHANGED <<tradeVars, watchVars, inflight>>
    \/ /\ get_favorites
       /\ req' = [op |-> "get_favorites"]
       /\ UNCHANGED <<tradeVars, watchVars, inflight>>
    \/ Tick

SpecFavorites == Init /\ [][NextFavorites]_vars

\* The watchlist beside the favorites, with the request kept beside the
\* response; no storage statement fails.
NextWatchlist ==
    \/ \E s \in WatchSymbols :
          /\ add_to_watchlist(s)
          /\ req' = [op |-> "add_to_watchlist", symbol |-> s]
          /\ UNCHANGED <<tradeVars, favVars, inflight>>
    \/ \E id \in WatchIds, item \in WatchUpdates :
          /\ update_watchlist_item(id, item)
          /\ req' = [op |-> "update_watchlist_item", item_id |-> id, item |-> item]
          /\ UNCHANGED <<tradeVars, favVars, inflight>>
    \/ \E id \in WatchIds :
          /\ remove_from_watchlist(id)
          /\ req' = [op |-> "remove_from_watchlist", item_id |-> id]
          /\ UNCHANGED <<tradeVars, favVars, inflight>>
    \/ /\ get_watchlist(FALSE, FALSE)
       /\ req' = [op |-> "get_watchlist"]
       /\ UNCHANGED <<tradeVars, favVars, inflight>>
    \/ \E s \in WatchSymbols :
          /\ add_favorite(s)
          /\ req' = [op |-> "add_favorite", symbol |-> s]
          /\ UNCHANGED <<tradeVars, watchVars, inflight>>
    \/ \E s \in WatchSymbols :
          /\ remove_favorite(s)
          /\ req' = [op |-> "remove_favorite", symbol |-> s]
          /\ UNCHANGED <<tradeVars, watchVars, inflight>>

SpecWatchlist == Init /\ [][NextWatchlist]_vars

\* Listings of the watchlist served beside add_favorite, remove_favorite and
\* update_watchlist_item requests of other processes: a request that commits
\* once is one step, the listing is two.  Rows are added to the watchlist
\* while no listing is being served.
NextWatchRace ==
    \/ \E p \in Procs :
          get_watchlist_sync(p) /\ UNCHANGED <<tradeVars, favVars, req>>
    \/ \E p \in Procs :
          get_watchlist_select(p) /\ UNCHANGED <<tradeVars, favVars, req>>
    \/ \E s \in WatchSymbols :
          add_favorite(s) /\ UNCHANGED <<tradeVars, watchVars, req, inflight>>
    \/ \E s \in WatchSymbols :
          remove_favorite(s) /\ UNCHANGED <<tradeVars, watchVars, req, inflight>>
    \/ \E s \in WatchSymbols :
          /\ \A p \in Procs : inflight[p] = Idle
          /\ add_to_watchlist(s)
          /\ UNCHANGED <<tradeVars, favVars, req, inflight>>
    \/ \E id \in WatchIds, item \in WatchUpdates :
          /\ update_watchlist_item(id, item)
          /\ UNCHANGED <<tradeVars, favVars, req, inflight>>

SpecWatchRace == Init /\ [][NextWatchRace]_vars

\* The nine operations that create, change and delete records, with the
\* request kept beside the response.
NextErrors ==
    \/ \E t \in ErrorCreates :
          /\ create_paper_trade(t)
          /\ req' = [op |-> "create_paper_trade", trade |-> t]
          /\ UNCHANGED <<favVars, watchVars, inflight>>
    \/ \E id \in TradeIds, u \in ErrorUpdates :
          /\ update_paper_trade(id, u)
          /\ req' = [op |-> "update_paper_trade", trade_id |-> id, update |-> u]
          /\ UNCHANGED <<favVars, watchVars, inflight>>
    \/ \E id \in TradeIds :
          /\ delete_paper_trade(id)
          /\ req' = [op |-> "delete_paper_trade", trade_id |-> id]
          /\ UNCHANGED <<favVars, watchVars, inflight>>
    \/ \E s \in ErrorSymbols :
          /\ add_favorite(s)
          /\ req' = [op |-> "add_favorite", symbol |-> s]
          /\ UNCHANGED <<tradeVars, watchVars, inflight>>
    \/ \E s \in ErrorSymbols, u \in FavoriteUpdates :
          /\ update_favorite(s, u)
          /\ req' = [op |-> "update_favorite", symbol |-> s, update |-> u]
          /\ UNCHANGED <<tradeVars, watchVars, inflight>>
    \/ \E s \in ErrorSymbols :
          /\ remove_favorite(s)
          /\ req' = [op |-> "remove_favorite", symbol |-> s]
          /\ UNCHANGED <<tradeVars, watchVars, inflight>>
    \/ \E s \in WatchSymbols :
          /\ add_to_watchlist(s)
          /\ req' = [op |-> "add_to_watchlist", symbol |-> s]
          /\ UNCHANGED <<tradeVars, favVars, inflight>>
    \/ \E id \in WatchIds, item \in WatchUpdates :
          /\ update_watchlist_item(id, item)
          /\ req' = [op |-> "update_watchlist_item", item_id |-> id, item |-> item]
          /\ UNCHANGED <<tradeVars, favVars, inflight>>
    \/ \E id \in WatchIds :
          /\ remove_from_watchlist(id)
          /\ req' = [op |-> "remove_from_watchlist", item_id |-> id]
          /\ UNCHANGED <<tradeVars, favVars, inflight>>

SpecErrors == Init /\ [][NextErrors]_vars

\* The watchlist beside the favorites where the storage statements of
\* get_watchlist may fail (sqlite3.OperationalError: the database is locked,
\* the disk fails).
NextFaults ==
    \/ \E s \in WatchSymbols :
          add_to_watchlist(s) /\ UNCHANGED <<tradeVars, favVars, req, inflight>>
    \/ \E id \in WatchIds, item \in WatchUpdates :
          /\ update_watchlist_item(id, item)
          /\ UNCHANGED <<tradeVars, favVars, req, inflight>>
    \/ \E id \in WatchIds :
          remove_from_watchlist(id) /\ UNCHANGED <<tradeVars, favVars, req, inflight>>
    \/ \E syncFails, selectFails \in BOOLEAN :
          /\ get_watchlist(syncFails, selectFails)
          /\ UNCHANGED <<tradeVars, favVars, req, inflight>>
    \/ \E s \in WatchSymbols :
          add_favorite(s) /\ UNCHANGED <<tradeVars, watchVars, req, inflight>>
    \/ \E s \in WatchSymbols :
          remove_favorite(s) /\ UNCHANGED <<tradeVars, watchVars, req, inflight>>

SpecFaults == Init /\ [][NextFaults]_vars

\* add_favorite requests served by the processes side by side, statement by
\* statement, and removals between them.
NextAddRace ==
    \/ \E p \in Procs, s \in FavSymbols :
          /\ add_favorite_select(p, s)
          /\ UNCHANGED <<tradeVars, watchVars, req>>
    \/ \E p \in Procs :
          add_favorite_max(p) /\ UNCHANGED <<tradeVars, watchVars, req>>
    \/ \E p \in Procs :
          add_favorite_insert(p) /\ UNCHANGED <<tradeVars, watchVars, req>>
    \/ \E s \in FavSymbols :
          remove_favorite(s) /\ UNCHANGED <<tradeVars, watchVars, req, inflight>>

SpecAddRace == Init /\ [][NextAddRace]_vars

\* The whole API.
Next == NextTrades \/ NextFavorites \/ NextWatchlist

Spec == Init /\ [][Next]_vars

----------------------------------------------------------------------------
(* Properties of paper-trade creation.                                     *)

\* The inputs the specification says are rejected.
C1_Rejected(t) ==
    \/ t.direction \notin {"LONG", "SHORT"}
    \/ t.entry_price <= 0
    \/ t.quantity <= 0
    \/ /\ t.direction = "LONG"
       /\ (t.stop_loss >= t.entry_price \/ t.take_profit <= t.entry_price)
    \/ /\ t.direction = "SHORT"
       /\ (t.stop_loss <= t.entry_price \/ t.take_profit >= t.entry_price)

\* The table after the step holds the rows it held and exactly one more.
OneTradeAdded ==
    /\ DOMAIN trades \subseteq DOMAIN trades'
    /\ Cardinality(DOMAIN trades' \ DOMAIN trades) = 1
    /\ \A i \in DOMAIN trades : trades'[i] = trades[i]

C2_PersistedTradesValid ==
    \A i \in DOMAIN trades :
        LET r == trades[i]
        IN  /\ r.entry_price > 0
            /\ r.quantity > 0
            /\ r.direction = "LONG" =>
                   r.stop_loss < r.entry_price /\ r.entry_price < r.take_profit
            /\ r.direction = "SHORT" =>
                   r.take_profit < r.entry_price /\ r.entry_price < r.stop_loss

\* A SHORT trade that an update has closed with a result, beside a LONG one.
C2_Witness ==
    \E i, j \in DOMAIN trades :
        /\ trades[i].direction = "SHORT"
        /\ trades[i].status = "closed"
        /\ trades[i].actual_profit_loss # None
        /\ trades[j].direction = "LONG"

----------------------------------------------------------------------------
(* Properties of the paper-trade statistics.                               *)

\* The last response is the statistics of the table as it is now (every
\* other operation replaces the response).
StatsAnswered == resp.op = "get_paper_trading_stats"

ClosedIn(rows, ids) == {i \in ids : rows[i].status = "closed"}

\* The closed trades that have a recorded actual_profit_loss.
RecordedIn(rows, ids) ==
    {i \in ClosedIn(rows, ids) : rows[i].actual_profit_loss # None}

RECURSIVE PnlOver(_, _)
PnlOver(rows, ids) ==
    IF ids = {} THEN 0
    ELSE LET i == CHOOSE x \in ids : TRUE
         IN  Get(rows[i].actual_profit_loss) + PnlOver(rows, ids \ {i})

\* The sum of actual_profit_loss over the closed trades among ids.
RealizedPnl(rows, ids) == PnlOver(rows, RecordedIn(rows, ids))

\* The fraction <<num, den>> equals sum / n.
FractionIs(f, sum, n) == f[1] * n = sum * f[2]

\* C3: over the empty table the statistics succeed with every count 0, every
\* sum 0 and the average absent.
C3_EmptyStats ==
    (StatsAnswered /\ DOMAIN trades = {}) =>
        LET g == resp.body.general
        IN  /\ resp.code = 200
            /\ g.total_trades = 0
            /\ g.planned_trades = 0
            /\ g.active_trades = 0
            /\ g.closed_trades = 0
            /\ g.winning_trades = Some(0)
            /\ g.losing_trades = Some(0)
            /\ g.total_pnl = Some(0)
            /\ g.total_risk_amount = Some(0)
            /\ g.avg_pnl = None

\* C4: for every table, winning_trades is the number of closed trades with
\* actual_profit_loss > 0 and losing_trades the number of closed trades with
\* actual_profit_loss < 0.
C4_WinLossCounts ==
    StatsAnswered =>
        LET g == resp.body.general
            rec == RecordedIn(trades, DOMAIN trades)
        IN  /\ g.winning_trades =
                 Some(Cardinality({i \in rec : Get(trades[i].actual_profit_loss) > 0}))
            /\ g.losing_trades =
                 Some(Cardinality({i \in rec : Get(trades[i].actual_profit_loss) < 0}))

\* A trade that was not closed is closed by the step, with a recorded
\* actual_profit_loss p: the statistics' total_pnl rises by exactly p.
C5_ClosingRaisesTotal ==
    \A i \in DOMAIN trades :
        ( /\ resp'.op = "update_paper_trade"
          /\ resp'.code = 200
          /\ trades[i].status # "closed"
          /\ trades'[i].status = "closed"
          /\ trades'[i].actual_profit_loss # None ) =>
            /\ GeneralStats(trades).total_pnl # None
            /\ GeneralStats(trades').total_pnl =
                 Some(Get(GeneralStats(trades).total_pnl)
                      + Get(trades'[i].actual_profit_loss))

\* total_pnl is the sum over the closed trades and never null, avg_pnl is
\* that sum over the number of closed trades.
C5_TotalsOverClosed ==
    (StatsAnswered /\ DOMAIN trades # {}) =>
        LET g == resp.body.general
            closed == ClosedIn(trades, DOMAIN trades)
            sum == RealizedPnl(trades, DOMAIN trades)
        IN  /\ g.total_pnl = Some(sum)
            /\ IF closed = {} THEN g.avg_pnl = None
               ELSE /\ g.avg_pnl # None
                    /\ FractionIs(Get(g.avg_pnl), sum, Cardinality(closed))

\* C5 as stated: for every non-empty table total_pnl is the sum of
\* actual_profit_loss over the closed trades (0, not null, when none is
\* closed), avg_pnl is that sum divided by the number of closed trades
\* (absent when there is none), and closing a trade with result p raises
\* total_pnl by exactly p.
C5_Original == [][C5_TotalsOverClosed' /\ C5_ClosingRaisesTotal]_vars

\* What SUM and AVG give for the trades among ids: the sum over the closed
\* trades with a recorded actual_profit_loss (null when every one of the
\* trades is closed with none recorded), and that sum over the number of
\* closed trades with a recorded actual_profit_loss.
RecordedTotals(rows, ids, total, avg) ==
    LET rec == RecordedIn(rows, ids)
        sum == RealizedPnl(rows, ids)
        allUnrecorded ==
            \A i \in ids : rows[i].status = "closed"
                           /\ rows[i].actual_profit_loss = None
    IN  /\ total = IF allUnrecorded THEN None ELSE Some(sum)
        /\ IF rec = {} THEN avg = None
           ELSE avg # None /\ FractionIs(Get(avg), sum, Cardinality(rec))

C5_TotalsOverRecorded ==
    (StatsAnswered /\ DOMAIN trades # {}) =>
        RecordedTotals(trades, DOMAIN trades,
                       resp.body.general.total_pnl, resp.body.general.avg_pnl)

\* C5, amended: for every non-empty table total_pnl is the sum of
\* actual_profit_loss over the closed trades that have one recorded (null
\* when every trade is closed with none recorded), avg_pnl is that sum
\* divided by the number of closed trades that have one recorded (absent
\* when there is none), and closing a trade with result p raises total_pnl
\* by exactly p.
C5_Amended == [][C5_TotalsOverRecorded' /\ C5_ClosingRaisesTotal]_vars

\* The statistics of two closed trades of which one has no recorded result:
\* the average is taken over the other alone.
C5_Witness ==
    /\ StatsAnswered
    /\ resp.body.general.closed_trades = 2
    /\ resp.body.general.avg_pnl = Some(<<1, 1>>)
    /\ resp.body.general.total_pnl = Some(1)

\* C6 as stated: the by-direction view holds an entry for LONG and an entry
\* for SHORT for every table.
C6_Original ==
    StatsAnswered =>
        \A d \in {"LONG", "SHORT"} :
            \E e \in resp.body.by_direction : e.direction = d

\* C6, amended: the by-direction view holds exactly one entry for each
\* direction that some trade has and none for a direction no trade has;
\* the entry reports the number of trades of its direction, and their summed
\* and average realized P&L over the closed trades with a recorded result.
C6_Amended ==
    StatsAnswered =>
        LET view == resp.body.by_direction
            used == {trades[i].direction : i \in DOMAIN trades}
            of(d) == {i \in DOMAIN trades : trades[i].direction = d}
        IN  /\ {e.direction : e \in view} = used
            /\ Cardinality(view) = Cardinality(used)
            /\ \A e \in view :
                  /\ e.trades_count = Cardinality(of(e.direction))
                  /\ RecordedTotals(trades, of(e.direction),
                                    e.direction_pnl, e.avg_pnl)

\* The statistics of a table that holds LONG trades only: the view has the
\* one entry.
C6_Witness ==
    /\ StatsAnswered
    /\ DOMAIN trades # {}
    /\ \A i \in DOMAIN trades : trades[i].direction = "LONG"
    /\ Cardinality(resp.body.by_direction) = 1

----------------------------------------------------------------------------
(* Properties of the favorites.                                            *)

\* The step is the handling of a request to op (Tick leaves the response).
FavStep(op) == resp'.op = op /\ req'.op = op /\ clock' = clock

\* C7: add_favorite for a symbol that is a favorite already, compared without
\* regard to case, answers 400 and creates no row.
C7_DuplicateRejected ==
    [][( /\ FavStep("add_favorite")
         /\ \E r \in favorites : Upper(r.symbol) = Upper(req'.symbol) ) =>
            resp'.code = 400 /\ favorites' = favorites]_vars

\* C8: a successful add_favorite stores the new favorite alone, with
\* sort_order 1 when there was no favorite and the largest sort_order of
\* the favorites there were plus 1 otherwise.
C8_AddSortOrder ==
    [][(FavStep("add_favorite") /\ resp'.code = 200) =>
          \E r \in favorites' :
              /\ r \notin favorites
              /\ favorites' = favorites \cup {r}
              /\ r.symbol = Upper(req'.symbol)
              /\ IF favorites = {} THEN r.sort_order = 1
                 ELSE /\ \A f \in favorites : f.sort_order < r.sort_order
                      /\ \E f \in favorites : f.sort_order + 1 = r.sort_order]_vars

\* A favorite has been added beside one that a reorder had put at 0.
C8_Witness ==
    /\ resp.op = "add_favorite"
    /\ resp.code = 200
    /\ Cardinality(favorites) = 2
    /\ \E r, f \in favorites :
          /\ r.symbol = Upper(req.symbol)
          /\ f.symbol # r.symbol
          /\ f.sort_order = 0
          /\ r.sort_order = 1

\* The 0-based position of the symbol in the list (of its last occurrence,
\* should the list name it in more than one spelling).
ListPosition(l, symbol) ==
    (CHOOSE i \in DOMAIN l :
        /\ Upper(l[i]) = symbol
        /\ \A j \in DOMAIN l : Upper(l[j]) = symbol => j <= i) - 1

\* C9: reorder_favorites sets the sort_order of each favorite the list names
\* to its 0-based position in the list, leaves every other favorite's
\* sort_order unchanged, and adds and removes no favorite.
C9_ReorderFrame ==
    [][FavStep("reorder_favorites") =>
          LET l == req'.symbol_order
              listed(symbol) == \E i \in DOMAIN l : Upper(l[i]) = symbol
          IN  /\ Cardinality(favorites') = Cardinality(favorites)
              /\ \A r \in favorites :
                    [r EXCEPT !.sort_order =
                        IF listed(r.symbol) THEN ListPosition(l, r.symbol)
                        ELSE @] \in favorites']_vars

\* The list [C, B] has been applied to the favorites A (1) and B (2), of
\* which C is none: B is at 1, A still at 1, and nothing is at 0.
C9_Witness ==
    /\ resp.op = "reorder_favorites"
    /\ req.symbol_order = << <<"C">>, <<"B">> >>
    /\ {<<r.symbol, r.sort_order>> : r \in favorites}
         = {<< <<"A">>, 1 >>, << <<"B">>, 1 >>}

SortOrderOf(symbol) == (CHOOSE r \in favorites : r.symbol = symbol).sort_order

\* The favorites are A, B and C.
FavoritesABC ==
    {r.symbol : r \in favorites} = {<<"A">>, <<"B">>, <<"C">>}

\* A, B and C as the list [B, A, C] orders them.
ReorderedBAC ==
    /\ FavoritesABC
    /\ SortOrderOf(<<"A">>) = 1
    /\ SortOrderOf(<<"B">>) = 0
    /\ SortOrderOf(<<"C">>) = 2

ListedSymbols(items) == [i \in DOMAIN items |-> items[i].symbol]

\* Reordering A, B, C with [B, A, C] stores A=1, B=0, C=2.
C10_Stored ==
    ( /\ FavStep("reorder_favorites")
      /\ req'.symbol_order = << <<"B">>, <<"A">>, <<"C">> >>
      /\ FavoritesABC ) => ReorderedBAC'

\* C10 as stated: reordering A, B, C with [B, A, C] stores A=1, B=0, C=2 and
\* a listing of these favorites returns A, B, C.
C10_Original ==
    [][ /\ C10_Stored
        /\ (FavStep("get_favorites") /\ ReorderedBAC) =>
              ListedSymbols(resp'.body.items) = << <<"A">>, <<"B">>, <<"C">> >>
      ]_vars

\* C10, amended: reordering A, B, C with [B, A, C] stores A=1, B=0, C=2 and
\* a listing of these favorites returns B, A, C.
C10_Amended ==
    [][ /\ C10_Stored
        /\ (FavStep("get_favorites") /\ ReorderedBAC) =>
              ListedSymbols(resp'.body.items) = << <<"B">>, <<"A">>, <<"C">> >>
      ]_vars

\* The favorites reordered by [B, A, C] have been listed.
C10_Witness ==
    /\ resp.op = "get_favorites"
    /\ ReorderedBAC
    /\ ListedSymbols(resp.body.items) = << <<"B">>, <<"A">>, <<"C">> >>

\* C11: in every state reached by adding, removing and reordering favorites
\* the sort_order values of n favorites are exactly 0..n-1, so that no two
\* favorites share one.
C11_DenseZeroBased ==
    {r.sort_order : r \in favorites} = 0..(Cardinality(favorites) - 1)

----------------------------------------------------------------------------
(* Properties of the watchlist.                                            *)

\* C12: when remove_favorite has removed a symbol that the watchlist holds
\* and the very next operation is get_watchlist, the listing returns every
\* row of the watchlist, the row of that symbol with is_favorite false and
\* every row with is_favorite equal to whether its symbol is a favorite.
C12_FlagAfterRemove ==
    [][( /\ resp.op = "remove_favorite"
         /\ resp.code = 200
         /\ WatchSymbolExists(watchlist, Upper(req.symbol))
         /\ resp'.op = "get_watchlist" ) =>
            /\ resp'.code = 200
            /\ LET items == resp'.body.items
               IN  /\ {items[i].id : i \in DOMAIN items} = {r.id : r \in watchlist}
                   /\ Len(items) = Cardinality(watchlist)
                   /\ \E i \in DOMAIN items :
                         /\ items[i].symbol = Upper(req.symbol)
                         /\ ~items[i].is_favorite
                   /\ \A i \in DOMAIN items :
                         items[i].is_favorite
                             = FavoriteExists(favorites, items[i].symbol)]_vars

\* A favorite has just been removed whose watchlist row still stores the
\* flag, beside a row of another favorite: the listing that follows has the
\* stored flag to clear.
C12_Witness ==
    /\ resp.op = "remove_favorite"
    /\ resp.code = 200
    /\ \E r, o \in watchlist :
          /\ r.symbol = Upper(req.symbol)
          /\ r.is_favorite
          /\ o.symbol # r.symbol
          /\ o.is_favorite
          /\ FavoriteExists(favorites, o.symbol)

\* The step is the SELECT of a get_watchlist that process p is serving.
WatchlistRead(p) ==
    /\ inflight[p].op = "get_watchlist"
    /\ inflight[p].pc = "select"
    /\ inflight'[p] = Idle

\* C13: however a get_watchlist interleaves with add_favorite,
\* remove_favorite and update_watchlist_item requests, every row it returns
\* carries is_favorite equal to whether its symbol is a favorite at the
\* moment the rows are read.
C13_FlagAtRead ==
    [][\A p \in Procs :
          WatchlistRead(p) =>
              \A i \in DOMAIN resp'.body.items :
                  resp'.body.items[i].is_favorite
                      = FavoriteExists(favorites, resp'.body.items[i].symbol)]_vars

----------------------------------------------------------------------------
(* Properties of the status and the exit fields of a paper trade.          *)

\* The step is the handling of a paper-trade request to op.
TradeStep(op) == resp'.op = op /\ req'.op = op

\* The trades the step creates.
CreatedTrades == DOMAIN trades' \ DOMAIN trades

\* The trades that the step brings to status s: created in it, or moved to
\* it from another status.
BroughtTo(s) ==
    {i \in DOMAIN trades' :
        /\ trades'[i].status = s
        /\ i \in DOMAIN trades => trades[i].status # s}

\* C14 as stated: a successful create_paper_trade leaves the new trade in
\* status planned whatever the request contained, and a trade comes to
\* active or closed only by an update_paper_trade.
C14_Original ==
    [][ /\ (TradeStep("create_paper_trade") /\ resp'.code = 200) =>
              /\ CreatedTrades # {}
              /\ \A i \in CreatedTrades : trades'[i].status = "planned"
        /\ (BroughtTo("active") \cup BroughtTo("closed") # {}) =>
              (TradeStep("update_paper_trade") /\ resp'.code = 200)
      ]_vars

\* C14, amended: a successful create_paper_trade leaves the new trade in the
\* status its request carries, which is planned, active or closed; the
\* status of a trade that exists changes only by a successful
\* update_paper_trade, and to the status that update carries.
C14_Amended ==
    [][ /\ (TradeStep("create_paper_trade") /\ resp'.code = 200) =>
              /\ CreatedTrades # {}
              /\ \A i \in CreatedTrades :
                    /\ trades'[i].status = req'.trade.status
                    /\ trades'[i].status \in {"planned", "active", "closed"}
        /\ \A i \in DOMAIN trades \cap DOMAIN trades' :
              trades'[i].status # trades[i].status =>
                  /\ TradeStep("update_paper_trade")
                  /\ resp'.code = 200
                  /\ req'.trade_id = i
                  /\ req'.update.status = Some(trades'[i].status)
      ]_vars

\* A trade has just been created in status closed.
C14_Witness ==
    /\ resp.op = "create_paper_trade"
    /\ resp.code = 200
    /\ req.trade.status = "closed"
    /\ resp.body.id \in DOMAIN trades
    /\ trades[resp.body.id].status = "closed"

\* C15: a status outside planned, active, closed is answered with 400 and
\* changes no trade, by create_paper_trade and by update_paper_trade of a
\* trade that exists; it is never answered with 500.
C15_BadStatusRejected ==
    [][ /\ ( /\ TradeStep("create_paper_trade")
             /\ req'.trade.status \notin {"planned", "active", "closed"} ) =>
                resp'.code = 400 /\ trades' = trades
        /\ ( /\ TradeStep("update_paper_trade")
             /\ req'.trade_id \in DOMAIN trades
             /\ req'.update.status # None
             /\ Get(req'.update.status) \notin {"planned", "active", "closed"} ) =>
                resp'.code = 400 /\ trades' = trades
      ]_vars

\* C16: a trade that has never been given status closed has exit_price,
\* exit_time and actual_profit_loss all null.  Checked where no update
\* carries planned or active, so that a trade that has once been closed
\* stays closed and the trades never closed are those not closed now.
C16_ExitFieldsOnlyWhenClosed ==
    \A i \in DOMAIN trades :
        trades[i].status # "closed" =>
            /\ trades[i].exit_price = None
            /\ trades[i].exit_time = None
            /\ trades[i].actual_profit_loss = None

----------------------------------------------------------------------------
(* Properties of the error answers.                                        *)

\* The step is the handling of a request to op.
Handled(op) == resp'.op = op /\ req'.op = op

\* The request of the step names a favorite that does not exist, whatever
\* the spelling.
UnknownFavorite ==
    /\ (Handled("update_favorite") \/ Handled("remove_favorite"))
    /\ ~\E r \in favorites : Upper(r.symbol) = Upper(req'.symbol)

\* The request of the step names a paper trade that does not exist.
UnknownTrade ==
    /\ (Handled("update_paper_trade") \/ Handled("delete_paper_trade"))
    /\ req'.trade_id \notin DOMAIN trades

\* The request of the step names a watchlist row that does not exist.
UnknownWatchItem ==
    /\ (Handled("update_watchlist_item") \/ Handled("remove_from_watchlist"))
    /\ req'.item_id \notin {r.id : r \in watchlist}

\* C17: an operation answered with 400 or 404 leaves the paper trades, the
\* favorites and the watchlist as they were, and an update or a deletion of
\* a symbol or an id that does not exist is answered with 404.
C17_ErrorsChangeNothing ==
    [][ /\ resp'.code \in {400, 404} =>
              /\ trades' = trades
              /\ favorites' = favorites
              /\ watchlist' = watchlist
        /\ (UnknownTrade \/ UnknownFavorite \/ UnknownWatchItem) =>
              resp'.code = 404
      ]_vars

\* An update of a favorite that does not exist has been answered with 404
\* while the paper trades and the watchlist hold rows.
C17_Witness ==
    /\ resp.op = "update_favorite"
    /\ resp.code = 404
    /\ req.update.notes # None
    /\ favorites = {}
    /\ DOMAIN trades # {}
    /\ watchlist # {}

WatchlistOps ==
    {"get_watchlist", "add_to_watchlist", "update_watchlist_item",
     "remove_from_watchlist"}

\* A storage statement failed in the watchlist request answered last: each
\* handler of the exception writes an error record.
StatementFailed ==
    /\ resp.op \in WatchlistOps
    /\ \E i \in DOMAIN watchLog : watchLog[i] = "error"

\* C18: whenever a storage statement has failed inside an operation, the
\* recomputation of the flags that get_watchlist runs included, the answer
\* is 500.
C18_FailureSurfaces == StatementFailed => resp.code = 500

----------------------------------------------------------------------------
(* Properties of add_favorite requests served side by side.                *)

\* The step is the INSERT of an add_favorite that process p is serving.
FavoriteInsert(p) ==
    /\ inflight[p].op = "add_favorite"
    /\ inflight[p].pc = "insert"
    /\ inflight'[p] = Idle

\* No symbol has more than one row.
OneRowPerSymbol == \A r, q \in favorites : r.symbol = q.symbol => r = q

\* C19: however the statements of concurrent add_favorite requests
\* interleave, a request whose symbol is not a favorite when its row is
\* inserted succeeds, with a sort_order strictly greater than that of every
\* favorite there is at that moment (so that two such requests get distinct
\* values), and no symbol ever has more than one row.
C19_ConcurrentAdds ==
    [][ /\ OneRowPerSymbol'
        /\ \A p \in Procs :
              (FavoriteInsert(p)
                  /\ ~FavoriteExists(favorites, Upper(inflight[p].symbol))) =>
                  /\ resp'.code = 200
                  /\ \E r \in favorites' :
                        /\ r.symbol = Upper(inflight[p].symbol)
                        /\ favorites' = favorites \cup {r}
                        /\ \A f \in favorites : f.sort_order < r.sort_order
      ]_vars

====
